---- MODULE Spec2Model ----
(***************************************************************************)
(* Model of the Protocall real-time interview session engine               *)
(* (components/InterviewSession.tsx and its second variant).               *)
(*                                                                         *)
(* One InterviewSession component instance is modelled: its React state,   *)
(* its refs, the asynchronous initializeSession attempts it has started,   *)
(* the remote channels those attempts opened, the capture producers, the   *)
(* playback scheduler, the transcript aggregator and the tool-call bridge. *)
(* The variable `variant` selects which of the two source variants runs:   *)
(*   "A" = src/components/InterviewSession.tsx                             *)
(*   "B" = src/unnamed/part_001                                            *)
(***************************************************************************)
EXTENDS Integers, Sequences, FiniteSets, TLC

\* ---------------------------------------------------------------- bounds
MaxStarts == 2
MaxMsgs == 3
MaxCalls == 3
MaxChunks == 2
MaxClock == 2
MaxBlocks == 2
MaxFrames == 2
MaxSeconds == 1
MaxElapsed == 5999
MaxWallClock == 9
DayLength == 4

Attempts == 1..MaxStarts
Variants == {"A", "B"}
Durations == {1, 2}
Deltas == {<<"h">>, <<" ">>}
ArgShapes == {"valid", "missing", "none"}

\* ------------------------------------------------------------- variables
VARIABLES
  variant,            \* which source variant is running
  mounted,            \* the component instance is mounted
  nStarts,            \* number of initializeSession calls made so far
  pc,                 \* per attempt: position of the async initializeSession
  chan,               \* per attempt: state of the channel ai.live.connect opened
  isReady, isListening, isMuted, error, secondsElapsed,   \* React state
  currentTranscript,  \* React state: the ordered turn history
  visualFeedback,     \* React state: the displayed cue
  isMutedRef, sessionRef, audioContextRef, frameIntervalRef, timerIntervalRef,
  feedbackTimeoutRef, nextStartTimeRef, sourcesRef, transcriptionRef,  \* refs
  ctxOpen,            \* audio context pairs created and not yet closed
  streams,            \* attempts whose media stream is acquired (tracks live)
  frameIntervals,     \* frame-capture interval timers that are running
  producers,          \* script processors wired by onopen: [att, ctx]
  timerIntervals,     \* session-timer intervals that are running
  nTimers,            \* number of session-timer intervals created so far
  cueTimers,          \* cue-expiry timeouts that are pending: their id and delay
  encoding,           \* video frames whose compression is in flight
  decoding,           \* audio chunks whose decode is in flight
  currentTime,        \* clock of the current output audio context
  pending,            \* per attempt: sends queued on the unresolved sessionPromise
  outbound,           \* per stream: frames handed to a channel, in send order
  nMsgs, nCalls, nChunks, nFrames, nBlocks,   \* counters of inbound events / captures
  received,           \* history: the tool name of every invocation received, by id
  schedule,           \* history: units scheduled since the cursor was last reset
  afterCancel,        \* history: 0, or -1 once an interruption was processed, or the
                      \* id of the first chunk that arrived after the last one
  recv,               \* history: text received per speaker in the current turn
  expected,           \* history: the turn history the received events call for
  app,                \* App state: status, config (0 for null), analysis (<<>> for null),
                      \* history, stats, loading
  evaluating,         \* the handleInterviewComplete call awaiting generateEvaluation:
                      \* <<>>, or <<the history and duration it was called with>>
  storage,            \* localStorage item 'protocall_stats': <<>> (absent) or <<the stats>>
  completions,        \* history: the overall scores of the evaluations that succeeded, in order
  wallClock,          \* the time new Date() returns, in units of 1 / DayLength of a day
  closes,             \* history: close() calls made so far, per channel and per
                      \* audio context pair (2 stands for two or more)
  lastOp              \* history: the operation that produced this state

appVars == <<app, evaluating, storage, wallClock, completions>>
timerVars == <<timerIntervalRef, timerIntervals, nTimers>>
sessionVars == <<appVars, variant, mounted, nStarts, pc, chan, isReady, isListening, error,
                 sessionRef, audioContextRef, frameIntervalRef, ctxOpen, streams,
                 frameIntervals, producers, closes, timerVars>>
captureVars == <<isMuted, isMutedRef, encoding, pending, outbound, nFrames, nBlocks>>
playVars == <<nextStartTimeRef, sourcesRef, decoding, currentTime, nChunks, schedule,
              afterCancel>>
textVars == <<currentTranscript, transcriptionRef, recv, expected>>
cueVars == <<visualFeedback, feedbackTimeoutRef, cueTimers, nCalls, received>>
vars == <<sessionVars, captureVars, playVars, textVars, cueVars,
          secondsElapsed, nMsgs, lastOp>>

\* --------------------------------------------------------------- helpers
NoCue == [id |-> 0, shape |-> "null"]
NoFrames == [audio |-> <<>>, video |-> <<>>, ack |-> <<>>]

\* React drops state updates of an unmounted component
SetState(new, old) == IF mounted THEN new ELSE old

\* session.close() on a channel: the close event is delivered later
CloseOf(c) == IF c \in {"connecting", "open"} THEN "closing" ELSE c

\* the promise of attempt a has resolved: .then callbacks run at once
Resolved(a) == pc[a] = "done"
\* the promise of attempt a is still pending: .then callbacks are queued
Unresolved(a) == pc[a] \in {"connect", "opened"}

\* s.sendRealtimeInput / s.sendToolResponse reached through sessionPromise.then
SendPending(a, kind, id) ==
  IF Unresolved(a)
    THEN [pending EXCEPT ![a][kind] = Append(@, id)]
    ELSE pending
SendOutbound(a, kind, id) ==
  IF Resolved(a)
    THEN [outbound EXCEPT ![kind] = Append(@, [id |-> id, ch |-> a, live |-> chan[a] = "open"])]
    ELSE outbound

\* INITIAL_STATS (lastSessionDate: -1 for null, else the number of the day)
INITIAL_STATS ==
  [totalSessions |-> 0, currentStreak |-> 0, lastSessionDate |-> -1,
   scoreHistory |-> <<>>, averageScore |-> 0]

\* the App state while it renders <InterviewSession>: a configuration was
\* chosen, nothing evaluated yet
InterviewingApp ==
  [status |-> "INTERVIEWING", config |-> 1, analysis |-> <<>>, history |-> <<>>,
   stats |-> INITIAL_STATS, loading |-> FALSE]

Init ==
  /\ variant \in Variants
  /\ mounted = TRUE
  /\ nStarts = 0
  /\ pc = [a \in Attempts |-> "none"]
  /\ chan = [a \in Attempts |-> "none"]
  /\ isReady = FALSE /\ isListening = FALSE /\ isMuted = FALSE
  /\ error = "null"
  /\ secondsElapsed = 0
  /\ currentTranscript = <<>>
  /\ visualFeedback = NoCue
  /\ isMutedRef = FALSE
  /\ sessionRef = 0 /\ audioContextRef = 0 /\ frameIntervalRef = 0
  /\ timerIntervalRef = 0 /\ timerIntervals = {} /\ nTimers = 0
  /\ feedbackTimeoutRef = 0
  /\ nextStartTimeRef = 0
  /\ sourcesRef = {}
  /\ transcriptionRef = [user |-> <<>>, model |-> <<>>]
  /\ ctxOpen = {} /\ streams = {} /\ frameIntervals = {} /\ producers = {}
  /\ cueTimers = {} /\ encoding = {} /\ decoding = {}
  /\ currentTime = 0
  /\ pending = [a \in Attempts |-> NoFrames]
  /\ outbound = NoFrames
  /\ nMsgs = 0 /\ nCalls = 0 /\ nChunks = 0 /\ nFrames = 0 /\ nBlocks = 0
  /\ received = <<>>
  /\ schedule = <<>>
  /\ afterCancel = 0
  /\ recv = [user |-> <<>>, model |-> <<>>]
  /\ expected = <<>>
  /\ app = InterviewingApp
  /\ evaluating = <<>>
  /\ storage = <<>>
  /\ wallClock = 0
  /\ completions = <<>>
  /\ closes = [session |-> [a \in Attempts |-> 0], ctx |-> [a \in Attempts |-> 0]]
  /\ lastOp = {"init"}

\* ------------------------------------------------------------- teardown
\* cleanup(): the values it leaves in the variables it touches
cleanup_chan == IF sessionRef # 0 THEN [chan EXCEPT ![sessionRef] = CloseOf(@)] ELSE chan
cleanup_ctxOpen == ctxOpen \ {audioContextRef}
cleanup_frameIntervals == frameIntervals \ {frameIntervalRef}
cleanup_cueTimers == {t \in cueTimers : t.id # feedbackTimeoutRef}
\* a ref that cleanup() leaves without nulling it
cleanup_sessionRef_kept == sessionRef
\* sessionRef.current = null, after sessionRef.current.close()
cleanup_sessionRef == 0
\* audioContextRef.current = null, after both contexts' close()
cleanup_audioContextRef == 0
\* one more close() call counted for handle h
Closed(count, h) == IF h # 0 THEN [count EXCEPT ![h] = IF @ >= 1 THEN 2 ELSE 1] ELSE count
cleanup_closes ==
  [session |-> Closed(closes.session, sessionRef), ctx |-> Closed(closes.ctx, audioContextRef)]

\* the timer ref and the running intervals after cleanup():
\* if (timerIntervalRef.current) { clearInterval(...); timerIntervalRef.current = null }
cleanedTimer == [ref |-> 0, live |-> timerIntervals \ {timerIntervalRef}]
\* the same for a handler that does not call cleanup()
keptTimer == [ref |-> timerIntervalRef, live |-> timerIntervals]

\* a session timer effect that never clears an interval
timerEffect_kept(st, unmounts, changed, run) ==
  IF ~unmounts /\ changed /\ run
    THEN [ref |-> nTimers + 1, live |-> st.live \cup {nTimers + 1}]
    ELSE st
\* the session timer effect in the render that follows a handler: on unmount
\* and when [isReady, isListening] changed the previous effect's cleanup
\* clears the interval of the ref; the effect then starts an interval when
\* isReady && isListening and clears the interval of the ref otherwise
timerEffect(st, unmounts, changed, run) ==
  LET cleared == st.live \ {st.ref} IN
  IF unmounts THEN [ref |-> st.ref, live |-> cleared]
  ELSE IF ~changed THEN st
  ELSE IF run THEN [ref |-> nTimers + 1, live |-> cleared \cup {nTimers + 1}]
  ELSE [ref |-> st.ref, live |-> cleared]

\* the effects of the render that follows a handler which left the timer ref
\* and intervals as st (React flushes them before the next callback runs)
timerCommit(st) ==
  LET r == timerEffect(st, mounted /\ ~mounted',
                       <<isReady', isListening'>> # <<isReady, isListening>>,
                       isReady' /\ isListening') IN
  /\ timerIntervalRef' = r.ref
  /\ timerIntervals' = r.live
  /\ nTimers' = IF r.ref = nTimers + 1 THEN nTimers + 1 ELSE nTimers

\* the part of cleanup() shared by every caller
cleanup ==
  /\ sessionRef' = cleanup_sessionRef
  /\ closes' = cleanup_closes
  /\ frameIntervalRef' = 0
  /\ frameIntervals' = cleanup_frameIntervals
  /\ cueTimers' = cleanup_cueTimers
  /\ sourcesRef' = {}
  /\ nextStartTimeRef' = 0
  /\ schedule' = <<>>
  /\ isReady' = SetState(FALSE, isReady)
  /\ isListening' = SetState(FALSE, isListening)
  /\ UNCHANGED <<feedbackTimeoutRef, streams, producers>>

\* the component unmounts: React runs the mount effect's cleanup function
unmounting ==
  /\ mounted
  /\ nStarts > 0
  /\ cleanup
  /\ chan' = cleanup_chan
  /\ audioContextRef' = cleanup_audioContextRef
  /\ ctxOpen' = cleanup_ctxOpen
  /\ mounted' = FALSE
  /\ timerCommit(cleanedTimer)
  /\ UNCHANGED <<variant, nStarts, pc, error, captureVars, decoding, currentTime,
                 nChunks, afterCancel, textVars, visualFeedback, nCalls, received, secondsElapsed, nMsgs>>

\* the mount effect's cleanup function: the component unmounts
unmount ==
  /\ unmounting
  /\ lastOp' = {"cleanup"} \cup (IF "cleanup" \in lastOp THEN {"again"} ELSE {})
  /\ UNCHANGED appVars

\* Number.prototype.toString of a natural number, as its sequence of digits
Digits == <<"0", "1", "2", "3", "4", "5", "6", "7", "8", "9">>
RECURSIVE toString(_)
toString(n) ==
  IF n < 10 THEN <<Digits[n + 1]>> ELSE toString(n \div 10) \o <<Digits[(n % 10) + 1]>>
\* a padStart that pads nothing
padStart_none(str, targetLength, padString) == str
\* String.prototype.padStart with a one-character pad string
RECURSIVE padStart(_, _, _)
padStart(str, targetLength, padString) ==
  IF Len(str) >= targetLength THEN str
  ELSE padStart(<<padString>> \o str, targetLength, padString)

\* formatTime(totalSeconds): mins and secs, each padded to two digits, joined by ":"
formatTime(totalSeconds) ==
  LET mins == totalSeconds \div 60
      secs == totalSeconds % 60
  IN padStart(toString(mins), 2, "0") \o <<":">> \o padStart(toString(secs), 2, "0")

\* the history argument handleFinish passes to onComplete
finishedHistory == currentTranscript

\* the Finish button: handleFinish calls onComplete, App.handleInterviewComplete
\* runs up to `await generateEvaluation` (setLoading(true)), and the re-render
\* replaces <InterviewSession> by the loading screen, which unmounts it
handleFinish ==
  /\ app.status = "INTERVIEWING"
  /\ app.config # 0
  /\ evaluating = <<>>
  /\ evaluating' = <<[history |-> finishedHistory, duration |-> formatTime(secondsElapsed)]>>
  /\ app' = [app EXCEPT !.loading = TRUE]
  /\ storage' = storage /\ wallClock' = wallClock /\ completions' = completions
  /\ unmounting
  /\ lastOp' = {"finish", "cleanup"}

\* the mount effect is re-run (its dependencies changed): React calls the
\* effect's cleanup function first, the component stays mounted
effectCleanup ==
  /\ mounted
  /\ nStarts > 0
  /\ cleanup
  /\ chan' = cleanup_chan
  /\ audioContextRef' = cleanup_audioContextRef
  /\ ctxOpen' = cleanup_ctxOpen
  /\ lastOp' = {"cleanup"} \cup (IF "cleanup" \in lastOp THEN {"again"} ELSE {})
  /\ UNCHANGED <<appVars, variant, mounted, nStarts, pc, error, captureVars, decoding, currentTime,
                 nChunks, afterCancel, textVars, visualFeedback, nCalls, received, secondsElapsed, nMsgs>>
  /\ timerCommit(cleanedTimer)

\* ---------------------------------------------------------------- start
\* initializeSession() up to its first await (getUserMedia)
initializeSession ==
  /\ mounted
  /\ nStarts < MaxStarts
  /\ LET a == nStarts + 1 IN
     /\ nStarts' = a
     /\ cleanup
     /\ chan' = cleanup_chan
     /\ \E hasKey \in BOOLEAN :
          IF variant = "B" /\ ~hasKey
            THEN /\ error' = "API Key Missing"
                 /\ pc' = [pc EXCEPT ![a] = "failed"]
                 /\ audioContextRef' = 0
                 /\ ctxOpen' = cleanup_ctxOpen
                 /\ currentTime' = currentTime
            ELSE /\ error' = "null"
                 /\ pc' = [pc EXCEPT ![a] = "media"]
                 /\ audioContextRef' = a
                 /\ ctxOpen' = cleanup_ctxOpen \cup {a}
                 /\ currentTime' = 0
  /\ lastOp' = {"initializeSession"}
  /\ UNCHANGED <<appVars, variant, mounted, captureVars, decoding, nChunks, afterCancel, textVars,
                 visualFeedback, nCalls, received, secondsElapsed, nMsgs>>
  /\ timerCommit(cleanedTimer)

\* getUserMedia resolves: the stream is attached and ai.live.connect is called
getUserMediaResolved(a) ==
  /\ pc[a] = "media"
  /\ pc' = [pc EXCEPT ![a] = "connect"]
  /\ chan' = [chan EXCEPT ![a] = "connecting"]
  /\ streams' = streams \cup {a}
  /\ lastOp' = {"getUserMedia"}
  /\ UNCHANGED <<closes, appVars, variant, mounted, nStarts, isReady, isListening, error, sessionRef,
                 audioContextRef, frameIntervalRef, ctxOpen, frameIntervals, producers,
                 captureVars, playVars, textVars, cueVars, secondsElapsed, nMsgs>>
  /\ timerCommit(keptTimer)

\* getUserMedia rejects: the catch block reports the failure
getUserMediaRejected(a) ==
  /\ pc[a] = "media"
  /\ pc' = [pc EXCEPT ![a] = "failed"]
  /\ error' = SetState("Hardware Sync Error", error)
  /\ lastOp' = {"catch"}
  /\ UNCHANGED <<closes, appVars, variant, mounted, nStarts, chan, isReady, isListening, sessionRef,
                 audioContextRef, frameIntervalRef, ctxOpen, streams, frameIntervals,
                 producers, captureVars, playVars, textVars, cueVars, secondsElapsed, nMsgs>>
  /\ timerCommit(keptTimer)

\* ai.live.connect rejects before the channel opens: the catch block reports it
connectRejected(a) ==
  /\ pc[a] = "connect"
  /\ chan[a] # "open"
  /\ pc' = [pc EXCEPT ![a] = "failed"]
  /\ chan' = [chan EXCEPT ![a] = "closed"]
  /\ error' = SetState("Hardware Sync Error", error)
  /\ lastOp' = {"catch"}
  /\ UNCHANGED <<closes, appVars, variant, mounted, nStarts, isReady, isListening, sessionRef,
                 audioContextRef, frameIntervalRef, ctxOpen, streams, frameIntervals,
                 producers, captureVars, playVars, textVars, cueVars, secondsElapsed, nMsgs>>
  /\ timerCommit(keptTimer)

\* the audio context pair the onopen callback of attempt a wires the microphone to:
\* variant A reads audioContextRef.current, variant B its own inCtx
onopen_ctx(a) == IF variant = "A" THEN audioContextRef ELSE a

\* callbacks.onopen of the channel of attempt a
onopen(a) ==
  /\ chan[a] = "connecting"
  /\ pc[a] = "connect"
  /\ chan' = [chan EXCEPT ![a] = "open"]
  /\ pc' = [pc EXCEPT ![a] = "opened"]
  /\ isReady' = SetState(TRUE, isReady)
  /\ isListening' = SetState(TRUE, isListening)
  /\ LET c == onopen_ctx(a) IN
       \* A: audioContextRef.current is null -> TypeError, the callback stops here.
       \* B: createMediaStreamSource on a closed context may throw (browser dependent).
       \E throws \in (IF c = 0 THEN {TRUE} ELSE IF c \in ctxOpen THEN {FALSE} ELSE BOOLEAN) :
         IF throws
           THEN UNCHANGED <<producers, frameIntervalRef, frameIntervals>>
           ELSE /\ producers' = producers \cup {[att |-> a, ctx |-> c]}
                /\ frameIntervalRef' = a
                /\ frameIntervals' = frameIntervals \cup {a}
  /\ lastOp' = {"onopen"}
  /\ UNCHANGED <<closes, appVars, variant, mounted, nStarts, error, sessionRef, audioContextRef, ctxOpen,
                 streams, captureVars, playVars, textVars, cueVars, secondsElapsed, nMsgs>>
  /\ timerCommit(keptTimer)

\* sessionPromise resolves: `sessionRef.current = await sessionPromise` continues,
\* then the .then callbacks queued on the promise run in registration order
sessionResolved(a) ==
  /\ pc[a] = "opened"
  /\ pc' = [pc EXCEPT ![a] = "done"]
  /\ sessionRef' = a
  /\ pending' = [pending EXCEPT ![a] = NoFrames]
  /\ outbound' = [k \in {"audio", "video", "ack"} |->
                    outbound[k] \o [i \in 1..Len(pending[a][k]) |->
                       [id |-> pending[a][k][i], ch |-> a, live |-> chan[a] = "open"]]]
  /\ lastOp' = {"sessionResolved"}
  /\ UNCHANGED <<closes, appVars, variant, mounted, nStarts, chan, isReady, isListening, error,
                 audioContextRef, frameIntervalRef, ctxOpen, streams, frameIntervals,
                 producers, isMuted, isMutedRef, encoding, nFrames, nBlocks,
                 playVars, textVars, cueVars, secondsElapsed, nMsgs>>
  /\ timerCommit(keptTimer)

\* callbacks.onerror of the channel of attempt a
onerror(a) ==
  /\ chan[a] \in {"connecting", "open"}
  /\ chan' = [chan EXCEPT ![a] = "failed"]
  /\ error' = SetState("Link Failed", error)
  /\ isListening' = SetState(FALSE, isListening)
  /\ lastOp' = {"onerror"}
  /\ UNCHANGED <<closes, appVars, variant, mounted, nStarts, pc, isReady, sessionRef, audioContextRef,
                 frameIntervalRef, ctxOpen, streams, frameIntervals, producers,
                 captureVars, playVars, textVars, cueVars, secondsElapsed, nMsgs>>
  /\ timerCommit(keptTimer)

\* callbacks.onclose of the channel of attempt a (remote close, close after an
\* error, or the close event of a session.close() issued by cleanup)
onclose(a) ==
  /\ chan[a] \in {"open", "failed", "closing"}
  /\ chan' = [chan EXCEPT ![a] = "closed"]
  /\ isListening' = SetState(FALSE, isListening)
  /\ \E notFound \in (IF variant = "B" /\ chan[a] # "closing" THEN BOOLEAN ELSE {FALSE}) :
       error' = IF notFound THEN SetState("Session Project Invalid", error) ELSE error
  /\ lastOp' = {"onclose"}
  /\ UNCHANGED <<closes, appVars, variant, mounted, nStarts, pc, isReady, sessionRef, audioContextRef,
                 frameIntervalRef, ctxOpen, streams, frameIntervals, producers,
                 captureVars, playVars, textVars, cueVars, secondsElapsed, nMsgs>>
  /\ timerCommit(keptTimer)

\* ----------------------------------------------------------- capture path
\* the mute button: setIsMuted(!isMuted), then the effect copies it to isMutedRef
\* (React flushes the effects of a click synchronously with it)
toggleMute ==
  /\ mounted
  /\ isMuted' = ~isMuted
  /\ isMutedRef' = ~isMuted
  /\ lastOp' = {"toggleMute"}
  /\ UNCHANGED <<sessionVars, encoding, pending, outbound, nFrames, nBlocks,
                 playVars, textVars, cueVars, secondsElapsed, nMsgs>>

\* a block callback that ignores the mute ref
audioDropped_never == FALSE
\* scriptProcessor.onaudioprocess: returns before encoding when muted
audioDropped == isMutedRef

\* scriptProcessor.onaudioprocess of the processor wired by attempt p.att
onaudioprocess(p) ==
  /\ p \in producers
  /\ p.ctx \in ctxOpen
  /\ nBlocks < MaxBlocks
  /\ nBlocks' = nBlocks + 1
  /\ IF audioDropped
       THEN UNCHANGED <<pending, outbound>>
       ELSE /\ pending' = SendPending(p.att, "audio", nBlocks + 1)
            /\ outbound' = SendOutbound(p.att, "audio", nBlocks + 1)
  /\ lastOp' = {"onaudioprocess"}
  /\ UNCHANGED <<sessionVars, isMuted, isMutedRef, encoding, nFrames,
                 playVars, textVars, cueVars, secondsElapsed, nMsgs>>

\* a frame callback that also consults the mute ref
frameReady_unmuted == mounted /\ sessionRef # 0 /\ ~isMutedRef
\* if (videoRef.current && canvasRef.current && sessionRef.current)
frameReady == mounted /\ sessionRef # 0
\* the frame interval of attempt t is running and its next callback captures a frame
frameDue(t) == t \in frameIntervals /\ frameReady /\ nFrames < MaxFrames

\* the frame interval callback of attempt t: draws the frame and starts toBlob
frameTick(t) ==
  /\ frameDue(t)
  /\ nFrames' = nFrames + 1
  /\ encoding' = encoding \cup {[id |-> nFrames + 1, att |-> t]}
  /\ lastOp' = {"frameTick"}
  /\ UNCHANGED <<sessionVars, isMuted, isMutedRef, pending, outbound, nBlocks,
                 playVars, textVars, cueVars, secondsElapsed, nMsgs>>

\* toBlob and blobToBase64 complete for frame f: the frame is sent
frameEncoded(f) ==
  /\ f \in encoding
  /\ encoding' = encoding \ {f}
  /\ pending' = SendPending(f.att, "video", f.id)
  /\ outbound' = SendOutbound(f.att, "video", f.id)
  /\ lastOp' = {"frameEncoded"}
  /\ UNCHANGED <<sessionVars, isMuted, isMutedRef, nFrames, nBlocks,
                 playVars, textVars, cueVars, secondsElapsed, nMsgs>>

\* a session-timer interval is running
timerRunning == timerIntervals # {}

timerTick ==
  /\ timerRunning
  /\ secondsElapsed < MaxSeconds
  /\ secondsElapsed' = SetState(secondsElapsed + 1, secondsElapsed)
  /\ lastOp' = {"timerTick"}
  /\ UNCHANGED <<sessionVars, captureVars, playVars, textVars, cueVars, nMsgs>>

\* ------------------------------------------------------- inbound messages
\* A LiveServerMessage: the function calls of msg.toolCall, the text of
\* serverContent.outputTranscription / inputTranscription (<<>> when absent),
\* serverContent.turnComplete, the audio chunk of modelTurn (0 when absent,
\* its duration when decodable, -1 when malformed) and serverContent.interrupted.
Msg(calls, out, inp, tc, audio, intr) ==
  [calls |-> calls, out |-> out, inp |-> inp, turnComplete |-> tc,
   audio |-> audio, interrupted |-> intr]
Call(name, args) == [name |-> name, args |-> args]

\* transcription deltas, turn boundaries and interruptions
TextMessages ==
       {Msg(<<>>, d, <<>>, FALSE, 0, FALSE) : d \in Deltas}
  \cup {Msg(<<>>, <<>>, d, FALSE, 0, FALSE) : d \in Deltas}
  \cup {Msg(<<>>, <<"h">>, <<"h">>, tc, 0, FALSE) : tc \in BOOLEAN}
  \cup {Msg(<<>>, <<"h">>, <<>>, TRUE, 0, FALSE), Msg(<<>>, <<"h">>, <<>>, FALSE, 0, TRUE)}
  \cup {Msg(<<>>, <<>>, <<>>, TRUE, 0, FALSE), Msg(<<>>, <<>>, <<>>, FALSE, 0, TRUE)}

\* synthesized audio chunks and interruptions
AudioMessages ==
       {Msg(<<>>, <<>>, <<>>, FALSE, a, i) : a \in Durations \cup {-1}, i \in BOOLEAN}
  \cup {Msg(<<>>, <<>>, <<>>, FALSE, 0, TRUE)}

\* one audio chunk, and the bare interruption
CancelMessages == {Msg(<<>>, <<>>, <<>>, FALSE, 1, FALSE), Msg(<<>>, <<>>, <<>>, FALSE, 0, TRUE)}

\* tool invocations
ToolMessages ==
       {Msg(<<Call("updateVisualFeedback", g)>>, <<>>, <<>>, FALSE, 0, FALSE) : g \in ArgShapes}
  \cup {Msg(<<Call("other", "valid")>>, <<>>, <<>>, FALSE, 0, FALSE)}
  \cup {Msg(<<Call("updateVisualFeedback", g), Call("updateVisualFeedback", "valid")>>,
            <<>>, <<>>, FALSE, 0, FALSE) : g \in {"valid", "none"}}

Messages == TextMessages \cup AudioMessages \cup ToolMessages

\* String.prototype.trim on a sequence of characters
RECURSIVE TrimLeft(_)
TrimLeft(s) == IF s # <<>> /\ Head(s) = " " THEN TrimLeft(Tail(s)) ELSE s
RECURSIVE TrimRight(_)
TrimRight(s) ==
  IF s # <<>> /\ s[Len(s)] = " " THEN TrimRight(SubSeq(s, 1, Len(s) - 1)) ELSE s
trim(s) == TrimRight(TrimLeft(s))

\* a turn boundary that appends an entry for each speaker, empty or not
Turns_unfiltered(user, model) ==
  <<[role |-> "user", text |-> trim(user)], [role |-> "interviewer", text |-> trim(model)]>>

\* the entries a turn boundary appends for the two buffers: user, then interviewer
Turns(user, model) ==
  (IF trim(user) # <<>> THEN <<[role |-> "user", text |-> trim(user)]>> ELSE <<>>) \o
  (IF trim(model) # <<>> THEN <<[role |-> "interviewer", text |-> trim(model)]>> ELSE <<>>)

\* the cue setVisualFeedback receives for a call with the given args
CueOf(id, args) ==
  IF args = "valid" THEN [id |-> id, shape |-> "valid"]
  ELSE IF args = "missing" THEN [id |-> id, shape |-> "partial"]
  ELSE [id |-> id, shape |-> "undefined"]

\* every call of the message is an updateVisualFeedback whose args lack a
\* field ("missing") or are absent ("none")
malformedOnly(calls) ==
  /\ calls # <<>>
  /\ \A i \in 1..Len(calls) :
       calls[i].name = "updateVisualFeedback" /\ calls[i].args # "valid"

\* the functionResponses payload of sendToolResponse for call c
AckOf(id, c) == [id |-> id, name |-> c.name, result |-> "ok"]

\* variant A destructures fc.args: a call without args throws a TypeError
callThrows(c) == variant = "A" /\ c.name = "updateVisualFeedback" /\ c.args = "none"

\* the delay of the cue-expiry timeout, in milliseconds
CueDelay == IF variant = "A" THEN 5000 ELSE 4000
\* a publication that arms the new timeout without clearing the previous one
rearmedTimers_kept(timers, ref, id) == timers \cup {[id |-> id, delay |-> CueDelay]}
\* if (feedbackTimeoutRef.current) clearTimeout(feedbackTimeoutRef.current);
\* feedbackTimeoutRef.current = window.setTimeout(..., delay)
rearmedTimers(timers, ref, id) ==
  {t \in timers : t.id # ref} \cup {[id |-> id, delay |-> CueDelay]}

\* the for loop over msg.toolCall.functionCalls, from call i on; st carries
\* the displayed cue, the timeout ref, the pending timeouts, the acknowledged
\* call ids and whether the handler has thrown
RECURSIVE toolCalls(_, _, _, _)
toolCalls(calls, i, base, st) ==
  IF i > Len(calls) \/ st.threw THEN st
  ELSE LET c == calls[i]
           id == base + i IN
       IF c.name # "updateVisualFeedback" THEN toolCalls(calls, i + 1, base, st)
       ELSE IF callThrows(c) THEN [st EXCEPT !.threw = TRUE]
       ELSE toolCalls(calls, i + 1, base,
              [vf |-> SetState(CueOf(id, c.args), st.vf),
               ref |-> id,
               timers |-> rearmedTimers(st.timers, st.ref, id),
               acks |-> Append(st.acks, AckOf(id, c)),
               threw |-> FALSE])

\* the transcription branch: outputTranscription, else inputTranscription
appendDelta(t, m) ==
  IF m.out # <<>> THEN [t EXCEPT !.model = @ \o m.out]
  ELSE IF m.inp # <<>> THEN [t EXCEPT !.user = @ \o m.inp]
  ELSE t

\* the interruption branch on the agent's partial text: only variant B clears it
interruptedText(t) == IF variant = "B" THEN [t EXCEPT !.model = <<>>] ELSE t

\* sends of the acknowledgements ids through the sessionPromise of attempt a
RECURSIVE AckPending(_, _, _)
AckPending(a, ids, q) ==
  IF ids = <<>> \/ ~Unresolved(a) THEN q
  ELSE AckPending(a, Tail(ids), [q EXCEPT ![a]["ack"] = Append(@, Head(ids))])
RECURSIVE AckOutbound(_, _, _)
AckOutbound(a, ids, o) ==
  IF ids = <<>> \/ ~Resolved(a) THEN o
  ELSE AckOutbound(a, Tail(ids),
         [o EXCEPT !["ack"] = Append(@, [id |-> Head(ids), ch |-> a, live |-> chan[a] = "open"])])

Max(x, y) == IF x >= y THEN x ELSE y

\* callbacks.onmessage of the channel of attempt a, up to `await decodeAudioData`
\* (to its end when the message carries no decodable audio)
onmessage(a, m) ==
  /\ chan[a] = "open"
  /\ nMsgs < MaxMsgs
  /\ nCalls + Len(m.calls) <= MaxCalls
  /\ (m.audio # 0) => nChunks < MaxChunks
  /\ nMsgs' = nMsgs + 1
  /\ nCalls' = nCalls + Len(m.calls)
  /\ received' = received \o [i \in 1..Len(m.calls) |-> m.calls[i].name]
  /\ nChunks' = IF m.audio # 0 THEN nChunks + 1 ELSE nChunks
  /\ IF audioContextRef = 0
       THEN \* if (!audioContextRef.current) return;
            /\ lastOp' = {"onmessage", "ignored"}
            /\ UNCHANGED <<visualFeedback, feedbackTimeoutRef, cueTimers, pending, outbound,
                           currentTranscript, transcriptionRef, recv, expected,
                           nextStartTimeRef, sourcesRef, decoding, schedule, afterCancel>>
       ELSE
         LET tc == toolCalls(m.calls, 1, nCalls,
                     [vf |-> visualFeedback, ref |-> feedbackTimeoutRef, timers |-> cueTimers,
                      acks |-> <<>>, threw |-> FALSE])
             t1 == appendDelta(transcriptionRef, m)
             flush == ~tc.threw /\ m.turnComplete
             t2 == IF flush THEN [user |-> <<>>, model |-> <<>>] ELSE t1
             bad == ~tc.threw /\ m.audio = -1
             awaits == ~tc.threw /\ m.audio > 0
             intr == ~tc.threw /\ ~bad /\ ~awaits /\ m.interrupted
             r1 == [user |-> recv.user \o m.inp, model |-> recv.model \o m.out]
         IN
         /\ visualFeedback' = tc.vf
         /\ feedbackTimeoutRef' = tc.ref
         /\ cueTimers' = tc.timers
         /\ pending' = AckPending(a, tc.acks, pending)
         /\ outbound' = AckOutbound(a, tc.acks, outbound)
         /\ transcriptionRef' =
              IF tc.threw THEN transcriptionRef
              ELSE IF intr THEN interruptedText(t2) ELSE t2
         /\ currentTranscript' =
              IF flush THEN SetState(currentTranscript \o Turns(t1.user, t1.model), currentTranscript)
              ELSE currentTranscript
         /\ expected' =
              IF m.turnComplete THEN SetState(expected \o Turns(r1.user, r1.model), expected)
              ELSE expected
         /\ recv' =
              IF m.turnComplete THEN [user |-> <<>>, model |-> <<>>]
              ELSE IF m.interrupted THEN [r1 EXCEPT !.model = <<>>]
              ELSE r1
         /\ nextStartTimeRef' =
              IF intr THEN 0
              ELSE IF bad \/ awaits THEN Max(nextStartTimeRef, currentTime)
              ELSE nextStartTimeRef
         /\ sourcesRef' = IF intr THEN {} ELSE sourcesRef
         /\ schedule' = IF intr THEN <<>> ELSE schedule
         /\ afterCancel' =
              IF intr THEN -1
              ELSE IF awaits /\ afterCancel = -1 THEN nChunks + 1
              ELSE afterCancel
         /\ decoding' =
              IF awaits
                THEN decoding \cup {[id |-> nChunks + 1, dur |-> m.audio,
                                      intr |-> m.interrupted, at |-> currentTime,
                                      cur |-> nextStartTimeRef]}
                ELSE decoding
         /\ lastOp' = {"onmessage"}
                      \cup (IF tc.threw THEN {"threw"} ELSE {})
                      \cup (IF m.calls # <<>> THEN {"toolCall"} ELSE {})
                      \cup (IF malformedOnly(m.calls) THEN {"malformed"} ELSE {})
                      \cup (IF m.out # <<>> \/ m.inp # <<>> THEN {"delta"} ELSE {})
                      \cup (IF flush THEN {"turnComplete"} ELSE {})
                      \cup (IF bad THEN {"badAudio"} ELSE {})
                      \cup (IF awaits THEN {"audio"} ELSE {})
                      \cup (IF m.interrupted THEN {"interruption"} ELSE {})
                      \cup (IF intr THEN {"interrupted"} ELSE {})
  /\ UNCHANGED <<sessionVars, isMuted, isMutedRef, encoding, nFrames, nBlocks,
                 currentTime, secondsElapsed>>

\* decodeAudioData resolves for chunk d: the rest of onmessage runs
scheduledStart == nextStartTimeRef
\* a scheduler that forgets to advance the cursor
advancedCursor_stale(dur) == nextStartTimeRef
\* nextStartTimeRef.current += audioBuffer.duration
advancedCursor(dur) == nextStartTimeRef + dur

decodeDone(d) ==
  /\ d \in decoding
  /\ decoding' = decoding \ {d}
  /\ LET unit == [id |-> d.id, start |-> scheduledStart, dur |-> d.dur] IN
       IF d.intr
         THEN /\ sourcesRef' = {}
              /\ nextStartTimeRef' = 0
              /\ schedule' = <<>>
              /\ afterCancel' = -1
              /\ transcriptionRef' = interruptedText(transcriptionRef)
              /\ lastOp' = {"decodeDone", "interrupted"}
         ELSE /\ sourcesRef' = sourcesRef \cup {unit}
              /\ nextStartTimeRef' = advancedCursor(d.dur)
              /\ schedule' = Append(schedule, [id |-> d.id, start |-> unit.start,
                                               dur |-> unit.dur, at |-> d.at,
                                               cur |-> d.cur, now |-> currentTime])
              /\ afterCancel' = afterCancel
              /\ transcriptionRef' = transcriptionRef
              /\ lastOp' = {"decodeDone"}
  /\ UNCHANGED <<sessionVars, captureVars, currentTime, nChunks, currentTranscript,
                 recv, expected, cueVars, secondsElapsed, nMsgs>>

\* the 'ended' event of a unit that played to its end: it leaves the live set
ended(u) ==
  /\ u \in sourcesRef
  /\ currentTime >= u.start + u.dur
  /\ sourcesRef' = sourcesRef \ {u}
  /\ lastOp' = {"ended"}
  /\ UNCHANGED <<sessionVars, captureVars, nextStartTimeRef, decoding, currentTime,
                 nChunks, schedule, afterCancel, textVars, cueVars, secondsElapsed, nMsgs>>

\* the output context's clock advances
clockTick ==
  /\ audioContextRef # 0
  /\ currentTime < MaxClock
  /\ currentTime' = currentTime + 1
  /\ lastOp' = {"clockTick"}
  /\ UNCHANGED <<sessionVars, captureVars, nextStartTimeRef, sourcesRef, decoding,
                 nChunks, schedule, afterCancel, textVars, cueVars, secondsElapsed, nMsgs>>

\* the output context's clock has advanced to time t
clockTo(t) ==
  /\ audioContextRef # 0
  /\ t > currentTime
  /\ currentTime' = t
  /\ lastOp' = {"clockTick"}
  /\ UNCHANGED <<sessionVars, captureVars, nextStartTimeRef, sourcesRef, decoding,
                 nChunks, schedule, afterCancel, textVars, cueVars, secondsElapsed, nMsgs>>

\* the cue-expiry timeout t fires: setVisualFeedback(null)
cueExpired(t) ==
  /\ t \in cueTimers
  /\ cueTimers' = cueTimers \ {t}
  /\ visualFeedback' = SetState(NoCue, visualFeedback)
  /\ lastOp' = {"cueExpired"}
  /\ UNCHANGED <<sessionVars, captureVars, playVars, textVars, feedbackTimeoutRef,
                 nCalls, received, secondsElapsed, nMsgs>>

\* ------------------------------------------------------- specifications
\* the steps of one initializeSession attempt and of its channel
Connection ==
  \/ \E a \in Attempts : getUserMediaResolved(a)
  \/ \E a \in Attempts : getUserMediaRejected(a)
  \/ \E a \in Attempts : connectRejected(a)
  \/ \E a \in Attempts : onopen(a)
  \/ \E a \in Attempts : sessionResolved(a)
  \/ \E a \in Attempts : onerror(a)
  \/ \E a \in Attempts : onclose(a)

\* the capture producers: microphone blocks and camera frames
Producers ==
  \/ \E p \in producers : onaudioprocess(p)
  \/ \E t \in frameIntervals : frameTick(t)
  \/ \E f \in encoding : frameEncoded(f)

\* the capture path with the mute button and the session timer
Capture == toggleMute \/ Producers \/ timerTick

\* the inbound event stream and the playback / cue timers it drives
Playback ==
  \/ \E d \in decoding : decodeDone(d)
  \/ \E u \in sourcesRef : ended(u)
  \/ clockTick
Inbound ==
  \/ \E a \in Attempts, m \in Messages : onmessage(a, m)
  \/ Playback
  \/ \E t \in cueTimers : cueExpired(t)

\* the mount effect runs initializeSession once (no effect re-run)
mount == nStarts = 0 /\ initializeSession

Next == initializeSession \/ unmount \/ Connection \/ Capture \/ Inbound

\* one mounted session aggregating transcription into turns
NextTranscript ==
  \/ mount \/ unmount \/ Connection
  \/ \E a \in Attempts, m \in TextMessages : onmessage(a, m)
SpecTranscript == Init /\ [][NextTranscript]_vars

\* a start that goes through: devices granted, channel opened
Established ==
  \/ \E a \in Attempts : getUserMediaResolved(a)
  \/ \E a \in Attempts : onopen(a)

\* one mounted session scheduling the agent's audio
NextPlayback ==
  \/ mount \/ unmount \/ Established
  \/ \E a \in Attempts, m \in AudioMessages : onmessage(a, m)
  \/ Playback
SpecPlayback == Init /\ [][NextPlayback]_vars

\* one mounted session brokering tool invocations
NextTools ==
  \/ mount \/ unmount \/ Connection
  \/ \E a \in Attempts, m \in ToolMessages : onmessage(a, m)
  \/ \E t \in cueTimers : cueExpired(t)
SpecTools == Init /\ [][NextTools]_vars

\* one mounted session running its capture producers
NextCapture == mount \/ unmount \/ Connection \/ Capture
SpecCapture == Init /\ [][NextCapture]_vars

\* the mount effect re-runs: initializeSession while an earlier attempt is alive
NextRestart == initializeSession \/ unmount \/ Connection \/ Producers
SpecRestart == Init /\ [][NextRestart]_vars

\* one mounted session whose user finishes the interview
NextFinish == NextTranscript \/ timerTick \/ handleFinish
SpecFinish == Init /\ [][NextFinish]_vars

\* chunks of 0.5 s arriving at clock times 0, 0.3 and 1.6 (in tenths of a second)
ExampleArrivals == <<0, 3, 16>>
ExampleStarts == <<0, 5, 16>>
ExampleChunk == Msg(<<>>, <<>>, <<>>, FALSE, 5, FALSE)
exampleChunkArrives(a) ==
  /\ nChunks < Len(ExampleArrivals)
  /\ currentTime = ExampleArrivals[nChunks + 1]
  /\ onmessage(a, ExampleChunk)

\* one mounted session receiving the example's chunks at the example's times
NextExample ==
  \/ mount \/ unmount \/ Established
  \/ \E a \in Attempts : exampleChunkArrives(a)
  \/ \E i \in 1..Len(ExampleArrivals) : clockTo(ExampleArrivals[i])
  \/ \E d \in decoding : decodeDone(d)
  \/ \E u \in sourcesRef : ended(u)
SpecExample == Init /\ [][NextExample]_vars

\* a transcription delta, and a message with a tool invocation, an audio chunk
\* and a turn boundary
MuteMessages ==
  {Msg(<<>>, <<"h">>, <<>>, FALSE, 0, FALSE),
   Msg(<<Call("updateVisualFeedback", "valid")>>, <<"h">>, <<>>, TRUE, 1, FALSE)}

\* one open session with every path active while the mute button is used
NextMute ==
  \/ mount \/ Established
  \/ \E a \in Attempts : sessionResolved(a)
  \/ toggleMute \/ timerTick
  \/ \E t \in frameIntervals : frameTick(t)
  \/ \E f \in encoding : frameEncoded(f)
  \/ \E a \in Attempts, m \in MuteMessages : onmessage(a, m)
  \/ \E d \in decoding : decodeDone(d)
SpecMute == Init /\ [][NextMute]_vars

\* ------------------------------------------------------------------ the app
\* everything but the app's own state
instanceVars == <<variant, mounted, nStarts, pc, chan, isReady, isListening, error,
                  sessionRef, audioContextRef, frameIntervalRef, ctxOpen, streams,
                  frameIntervals, producers, closes, timerVars, captureVars, playVars, textVars,
                  cueVars, secondsElapsed, nMsgs>>

Configs == {1}
Scores == {1, 2}

\* nothing of an unmounted session instance is still in flight
Settled ==
  /\ \A a \in Attempts : pc[a] \in {"none", "failed", "done"} /\ chan[a] \in {"none", "closed"}
  /\ frameIntervals = {} /\ encoding = {} /\ decoding = {} /\ cueTimers = {}
  /\ \A p \in producers : p.ctx \notin ctxOpen

\* <InterviewSession> is rendered as a new instance (fresh state and refs) and
\* its mount effect runs initializeSession up to its first await
startInstance ==
  /\ ~mounted
  /\ Settled
  /\ nStarts < MaxStarts
  /\ mounted' = TRUE
  /\ LET a == nStarts + 1 IN
     /\ nStarts' = a
     /\ \E hasKey \in BOOLEAN :
          IF variant = "B" /\ ~hasKey
            THEN /\ error' = "API Key Missing"
                 /\ pc' = [pc EXCEPT ![a] = "failed"]
                 /\ audioContextRef' = 0
                 /\ ctxOpen' = ctxOpen
                 /\ currentTime' = currentTime
            ELSE /\ error' = "null"
                 /\ pc' = [pc EXCEPT ![a] = "media"]
                 /\ audioContextRef' = a
                 /\ ctxOpen' = ctxOpen \cup {a}
                 /\ currentTime' = 0
  /\ isReady' = FALSE /\ isListening' = FALSE /\ isMuted' = FALSE
  /\ secondsElapsed' = 0
  /\ currentTranscript' = <<>>
  /\ visualFeedback' = NoCue
  /\ isMutedRef' = FALSE
  /\ sessionRef' = 0 /\ frameIntervalRef' = 0 /\ feedbackTimeoutRef' = 0
  /\ timerIntervalRef' = 0 /\ timerIntervals' = timerIntervals /\ nTimers' = nTimers
  /\ nextStartTimeRef' = 0
  /\ sourcesRef' = {}
  /\ transcriptionRef' = [user |-> <<>>, model |-> <<>>]
  /\ schedule' = <<>> /\ afterCancel' = 0
  /\ recv' = [user |-> <<>>, model |-> <<>>] /\ expected' = <<>>
  /\ UNCHANGED <<variant, chan, streams, frameIntervals, producers, closes, encoding,
                 pending, outbound, nFrames, nBlocks, decoding, nChunks, cueTimers,
                 nCalls, received, nMsgs>>

\* the Start Preparation button of the landing page
startPreparation ==
  /\ app.status = "IDLE"
  /\ ~app.loading
  /\ app' = [app EXCEPT !.status = "SETUP"]
  /\ lastOp' = {"startPreparation"}
  /\ UNCHANGED <<evaluating, storage, wallClock, completions, instanceVars>>

\* handleStartInterview(config), called by <InterviewSetup>
handleStartInterview(config) ==
  /\ app.status = "SETUP"
  /\ ~app.loading
  /\ app' = [app EXCEPT !.config = config, !.status = "INTERVIEWING"]
  /\ startInstance
  /\ lastOp' = {"handleStartInterview", "initializeSession"}
  /\ UNCHANGED <<evaluating, storage, wallClock, completions>>

\* updateStats(newScore): the statistics it computes (their score history)
RECURSIVE Sum(_)
Sum(q) == IF q = <<>> THEN 0 ELSE Head(q) + Sum(Tail(q))
\* a division that drops the fraction
RoundDiv_floor(x, y) == x \div y
\* Math.round(x / y) for x >= 0, y > 0
RoundDiv(x, y) == (2 * x + y) \div (2 * y)
\* Math.ceil(x / y) for x >= 0, y > 0
CeilDiv(x, y) == (x + y - 1) \div y
Abs(x) == IF x < 0 THEN -x ELSE x
\* now.toISOString().split('T')[0]: the (UTC) day of an instant
DayOf(t) == t \div DayLength
\* new Date(lastDate).getTime(): midnight of a day
MidnightOf(day) == day * DayLength

\* the streak branches of updateStats
newStreak(oldStats, now) ==
  IF oldStats.lastSessionDate = -1 THEN 1
  ELSE LET diffTime == Abs(now - MidnightOf(oldStats.lastSessionDate))
           diffDays == CeilDiv(diffTime, DayLength) IN
       IF diffDays = 1 THEN oldStats.currentStreak + 1
       ELSE IF diffDays > 1 THEN 1
       ELSE oldStats.currentStreak

updatedStats(newScore) ==
  LET oldStats == app.stats
      newHistory == Append(oldStats.scoreHistory, newScore) IN
  [totalSessions |-> oldStats.totalSessions + 1,
   currentStreak |-> newStreak(oldStats, wallClock),
   lastSessionDate |-> DayOf(wallClock),
   scoreHistory |-> newHistory,
   averageScore |-> RoundDiv(Sum(newHistory), Len(newHistory))]
\* localStorage.setItem('protocall_stats', ...) of updateStats
\* JSON.stringify of a UserStats object: the values of its keys in the order
\* of the object literal
stringify(stats) ==
  <<stats.totalSessions, stats.currentStreak, stats.lastSessionDate>>
    \o stats.scoreHistory \o <<stats.averageScore>>
\* JSON.parse of such a text
parse(text) ==
  [totalSessions |-> text[1], currentStreak |-> text[2], lastSessionDate |-> text[3],
   scoreHistory |-> SubSeq(text, 4, Len(text) - 1), averageScore |-> text[Len(text)]]
updateStats_storage(newScore) ==
  IF variant = "A" THEN <<stringify(updatedStats(newScore))>> ELSE storage

\* handleInterviewComplete after `await generateEvaluation` resolved
evaluationResolved(score) ==
  /\ evaluating # <<>>
  /\ evaluating' = <<>>
  /\ storage' = updateStats_storage(score)
  /\ wallClock' = wallClock
  /\ completions' = Append(completions, score)
  /\ app' = [app EXCEPT !.stats = IF variant = "A" THEN updatedStats(score) ELSE @,
                        !.history = evaluating[1].history,
                        !.analysis = <<[score |-> score, duration |-> evaluating[1].duration]>>,
                        !.status = "COMPLETED",
                        !.loading = FALSE]
  /\ lastOp' = {"evaluationResolved"}
  /\ UNCHANGED instanceVars

\* a failure path without the finally block
rejectedState_loading == app
\* catch { console.error; alert } finally { setLoading(false) }
rejectedState == [app EXCEPT !.loading = FALSE]

\* handleInterviewComplete after `await generateEvaluation` rejected: alert,
\* setLoading(false); an interview still selected is rendered again
evaluationRejected ==
  /\ evaluating # <<>>
  /\ evaluating' = <<>>
  /\ storage' = storage /\ wallClock' = wallClock /\ completions' = completions
  /\ app' = rejectedState
  /\ IF app.status = "INTERVIEWING" /\ app.config # 0
       THEN startInstance /\ lastOp' = {"evaluationRejected", "initializeSession"}
       ELSE UNCHANGED instanceVars /\ lastOp' = {"evaluationRejected"}

\* a reset that clears analysis and config and leaves the status
resetState_statusKept == [app EXCEPT !.analysis = <<>>, !.config = 0]
\* setState(prev => ({ ...prev, status: IDLE, analysis: null, config: null }))
resetState == [app EXCEPT !.status = "IDLE", !.analysis = <<>>, !.config = 0]

\* onReset of <AnalysisReport> and the click on the logo of the navigation bar
reset ==
  /\ app' = resetState
  /\ IF mounted
       THEN unmounting /\ lastOp' = {"reset", "cleanup"}
       ELSE UNCHANGED instanceVars /\ lastOp' = {"reset"}
  /\ UNCHANGED <<evaluating, storage, wallClock, completions>>

\* a transcription delta and a turn boundary
AppMessages ==
  {Msg(<<>>, <<"h">>, <<>>, FALSE, 0, FALSE), Msg(<<>>, <<>>, <<>>, TRUE, 0, FALSE)}

\* the app through interviews, evaluations and resets
NextApp ==
  \/ mount \/ Established
  \/ \E a \in Attempts : sessionResolved(a)
  \/ \E a \in Attempts : onclose(a)
  \/ \E a \in Attempts, m \in AppMessages : onmessage(a, m)
  \/ timerTick
  \/ handleFinish
  \/ \E score \in Scores : evaluationResolved(score)
  \/ evaluationRejected
  \/ reset
  \/ startPreparation
  \/ \E config \in Configs : handleStartInterview(config)
SpecApp == Init /\ [][NextApp]_vars

\* an open session (devices granted, channel open, connection resolved, timer
\* running) that has been open for any number of seconds up to MaxElapsed
InitOpen ==
  /\ variant \in Variants
  /\ mounted = TRUE
  /\ nStarts = 1
  /\ pc = [a \in Attempts |-> IF a = 1 THEN "done" ELSE "none"]
  /\ chan = [a \in Attempts |-> IF a = 1 THEN "open" ELSE "none"]
  /\ isReady = TRUE /\ isListening = TRUE /\ isMuted = FALSE
  /\ error = "null"
  /\ secondsElapsed \in 0..MaxElapsed
  /\ currentTranscript = <<>>
  /\ visualFeedback = NoCue
  /\ isMutedRef = FALSE
  /\ sessionRef = 1 /\ audioContextRef = 1 /\ frameIntervalRef = 1
  /\ timerIntervalRef = 1 /\ timerIntervals = {1} /\ nTimers = 1
  /\ feedbackTimeoutRef = 0
  /\ nextStartTimeRef = 0
  /\ sourcesRef = {}
  /\ transcriptionRef = [user |-> <<>>, model |-> <<>>]
  /\ ctxOpen = {1} /\ streams = {1} /\ frameIntervals = {1}
  /\ producers = {[att |-> 1, ctx |-> 1]}
  /\ cueTimers = {} /\ encoding = {} /\ decoding = {}
  /\ currentTime = 0
  /\ pending = [a \in Attempts |-> NoFrames]
  /\ outbound = NoFrames
  /\ nMsgs = 0 /\ nCalls = 0 /\ nChunks = 0 /\ nFrames = 0 /\ nBlocks = 0
  /\ received = <<>>
  /\ schedule = <<>>
  /\ afterCancel = 0
  /\ recv = [user |-> <<>>, model |-> <<>>]
  /\ expected = <<>>
  /\ app = InterviewingApp
  /\ evaluating = <<>>
  /\ storage = <<>>
  /\ wallClock = 0
  /\ completions = <<>>
  /\ closes = [session |-> [a \in Attempts |-> 0], ctx |-> [a \in Attempts |-> 0]]
  /\ lastOp = {"init"}

\* the user finishes an open session and its evaluation resolves
NextDuration == handleFinish \/ \E score \in Scores : evaluationResolved(score)
SpecDuration == InitOpen /\ [][NextDuration]_vars

\* time passes between two events of the app
timePasses(d) ==
  /\ wallClock + d <= MaxWallClock
  /\ wallClock' = wallClock + d
  /\ lastOp' = {"timePasses"}
  /\ UNCHANGED <<app, evaluating, storage, completions, instanceVars>>

\* interviews completed over several days
NextStats ==
  \/ mount
  \/ \E a \in Attempts : getUserMediaRejected(a)
  \/ handleFinish
  \/ \E score \in Scores : evaluationResolved(score)
  \/ reset
  \/ startPreparation
  \/ \E config \in Configs : handleStartInterview(config)
  \/ \E d \in 1..DayLength : timePasses(d)
SpecStats == Init /\ [][NextStats]_vars

\* teardown from every path (effect re-run, restart, unmount) and interruptions
NextTeardown ==
  \/ initializeSession \/ effectCleanup \/ unmount \/ Established
  \/ \E a \in Attempts : sessionResolved(a)
  \/ \E m \in CancelMessages : sessionRef # 0 /\ onmessage(sessionRef, m)
  \/ \E d \in decoding : decodeDone(d)
SpecTeardown == Init /\ [][NextTeardown]_vars

Spec == Init /\ [][Next]_vars
\* ---------------------------------------------------------------- claims
OpenChannels == {a \in Attempts : chan[a] = "open"}

\* C1: at every moment at most one remote channel is open, for every sequence
\* of start and teardown requests (also a start issued while an earlier start
\* is still waiting for the devices or the connection).
C1_AtMostOneOpenChannel == Cardinality(OpenChannels) <= 1

\* the lifecycle state of the session as the component shows it
lifecycle ==
  IF ~mounted THEN "CLOSED"
  ELSE IF error # "null" THEN "ERROR"
  ELSE IF isReady /\ isListening THEN "OPEN"
  ELSE IF isReady THEN "CLOSED"
  ELSE IF \E a \in Attempts : pc[a] \in {"media", "connect"} THEN "ACQUIRING"
  ELSE IF nStarts = 0 THEN "IDLE"
  ELSE "CLOSED"

\* C2: the lifecycle only moves IDLE -> ACQUIRING -> OPEN -> CLOSED, with ERROR
\* entered from ACQUIRING or OPEN; OPEN is entered only from ACQUIRING by the
\* channel's open callback, capture producers start only in that callback, and a
\* CLOSED or ERROR session is moved only by a start request (a teardown request
\* closes it from any state).
C2_LifecycleStep ==
  /\ lifecycle' # lifecycle =>
       \/ "initializeSession" \in lastOp' /\ lifecycle' \in {"ACQUIRING", "ERROR"}
       \/ "cleanup" \in lastOp' /\ lifecycle' = "CLOSED"
       \/ lifecycle = "ACQUIRING" /\ lifecycle' = "OPEN" /\ "onopen" \in lastOp'
       \/ lifecycle = "OPEN" /\ lifecycle' = "CLOSED"
       \/ lifecycle \in {"ACQUIRING", "OPEN"} /\ lifecycle' = "ERROR"
  /\ \A p \in producers' \ producers : "onopen" \in lastOp' /\ chan[p.att] # "open"
  /\ \A t \in frameIntervals' \ frameIntervals : "onopen" \in lastOp' /\ chan[t] # "open"
C2_LifecycleTransitions == [][C2_LifecycleStep]_vars

\* script processors that still deliver microphone blocks
ActiveProducers == {p \in producers : p.ctx \in ctxOpen}

\* C3: after teardown every resource of the session is released: both timers
\* stopped, the media tracks stopped, the channel closed, every playback unit
\* stopped and the live set empty, no cue-expiry timer pending.
C3_TeardownReleasesAll ==
  "cleanup" \in lastOp =>
    /\ frameIntervals = {}
    /\ ~timerRunning
    /\ streams = {}
    /\ \A a \in Attempts : chan[a] \notin {"connecting", "open"}
    /\ ActiveProducers = {}
    /\ sourcesRef = {}
    /\ cueTimers = {}

\* the acknowledgements handed to a channel or queued on its pending promise
AckSeq(a) == pending[a]["ack"]
Acks ==
  {outbound["ack"][i].id : i \in 1..Len(outbound["ack"])}
    \cup UNION {{AckSeq(a)[i] : i \in 1..Len(AckSeq(a))} : a \in Attempts}
AckedIds == {k.id : k \in Acks}
AckCount ==
  Len(outbound["ack"]) +
  Cardinality({<<a, i>> \in Attempts \X (1..MaxCalls) : i <= Len(AckSeq(a))})

\* C4: every tool invocation received by the live session has exactly one
\* acknowledgement, whatever its payload: none is left unanswered, none is
\* answered twice.
C4_EveryInvocationAcked ==
  mounted =>
    /\ AckedIds = 1..nCalls
    /\ AckCount = nCalls

\* C5: after any interleaving of deltas and a turn boundary the history holds,
\* per boundary, at most a user entry then an agent entry, each the trimmed
\* concatenation in arrival order of all deltas received for that speaker since
\* the last boundary (for the agent: or interruption); both buffers are empty
\* after the boundary.
C5_TurnsAreTrimmedConcatenations ==
  mounted =>
    /\ currentTranscript = expected
    /\ "turnComplete" \in lastOp =>
         transcriptionRef = [user |-> <<>>, model |-> <<>>]

\* C6: with no cancellation in between, scheduled start times are non-decreasing
\* and each unit starts no earlier than the previous unit's start plus its
\* duration: no two playback units overlap.
C6_NoOverlap ==
  \A i \in 1..(Len(schedule) - 1) :
    schedule[i + 1].start >= schedule[i].start + schedule[i].dur
C6_Witness ==
  /\ Len(schedule) >= 2
  /\ schedule[2].at < schedule[1].start + schedule[1].dur
  /\ schedule[2].start = schedule[1].start + schedule[1].dur

\* C7: an interruption, processed at any point of a live session, leaves the
\* live set empty, and
\* the next chunk that arrives after it (when no later chunk's decode overtakes
\* it) is scheduled at the output clock's current time (between the clock's
\* reading at its arrival and at its scheduling), never behind a start time left
\* over from the cancelled queue.
C7_CancelAllThenNow ==
  mounted =>
    /\ "interrupted" \in lastOp => sourcesRef = {}
    /\ \A i \in 1..Len(schedule) :
         (/\ schedule[i].id = afterCancel
          /\ \A j \in 1..(i - 1) : schedule[j].id < afterCancel)
           => /\ schedule[i].start >= schedule[i].at
              /\ schedule[i].start <= schedule[i].now

\* C8: processing an interruption clears the agent's partial buffer and leaves
\* the user's partial buffer in place.
C8_InterruptionStep ==
  "interrupted" \in lastOp' =>
    /\ transcriptionRef'.model = <<>>
    /\ Len(transcriptionRef'.user) >= Len(transcriptionRef.user)
C8_InterruptionClearsAgentOnly == [][C8_InterruptionStep]_vars

\* audio frames encoded so far: sent, or queued on a pending connection
AudioProduced ==
  Len(outbound["audio"]) +
  Cardinality({<<a, i>> \in Attempts \X (1..MaxBlocks) : i <= Len(pending[a]["audio"])})

\* C9: while the session is muted no outbound audio frame is produced, for any
\* interleaving of mute toggles and audio-block callbacks.
C9_MutedProducesNoAudio == [][isMuted => AudioProduced' = AudioProduced]_vars
C9_Witness ==
  /\ isMuted
  /\ "onaudioprocess" \in lastOp
  /\ AudioProduced >= 1
  /\ AudioProduced < nBlocks

\* C10: a channel error on an open session puts it in ERROR with a reason and
\* tears all producers and consumers down: no frame timer, no microphone
\* producer and no session timer keeps running, and no channel is reconnected.
C10_ErrorTearsDown ==
  ("onerror" \in lastOp /\ mounted /\ isReady) =>
    /\ error # "null"
    /\ ~isListening
    /\ frameIntervals = {}
    /\ ActiveProducers = {}
    /\ \A a \in Attempts : chan[a] \notin {"connecting", "open"}

\* attempts whose device acquisition was just rejected (the catch block ran
\* before ai.live.connect was reached)
AcquisitionFailed ==
  {a \in Attempts : "catch" \in lastOp /\ pc[a] = "failed" /\ chan[a] = "none"}

\* C11: when the device acquisition of a mounted session fails, the failure is
\* shown as an error, no channel was connected, no frame timer or microphone
\* producer was started, and nothing acquired before the failing step (the
\* audio context pair, a media stream) is still held.
C11_AcquisitionFailureHoldsNothing ==
  \A a \in AcquisitionFailed :
    mounted =>
      /\ error # "null"
      /\ chan[a] = "none"
      /\ a \notin frameIntervals
      /\ \A p \in producers : p.att # a
      /\ a \notin streams
      /\ a \notin ctxOpen

\* C12: teardown and the interruption handler are idempotent: close() is called
\* at most once on every channel and on every audio context pair, a teardown
\* that directly follows a teardown changes nothing (no ref, no timer, no
\* channel, no context, no playback unit), and an interruption that directly
\* follows an interruption leaves the live set, the cursor and the partial
\* buffers as they are.
C12_IdempotentStep ==
  /\ \A a \in Attempts : closes'.session[a] <= 1 /\ closes'.ctx[a] <= 1
  /\ "again" \in lastOp' =>
       UNCHANGED <<chan, ctxOpen, frameIntervals, cueTimers, sourcesRef, nextStartTimeRef,
                   sessionRef, audioContextRef, frameIntervalRef, feedbackTimeoutRef,
                   isReady, isListening, closes, streams, producers, transcriptionRef>>
  /\ ("interrupted" \in lastOp /\ "interrupted" \in lastOp') =>
       UNCHANGED <<sourcesRef, nextStartTimeRef, transcriptionRef, chan, ctxOpen>>
C12_TeardownIdempotent == [][C12_IdempotentStep]_vars
C12_Witness ==
  /\ "again" \in lastOp
  /\ \E a \in Attempts : closes.session[a] = 1 /\ closes.ctx[a] = 1 /\ chan[a] = "closing"

\* C13: finish hands the caller the turn history accumulated so far (every
\* finalized turn, in order, nothing else) and the elapsed duration, and the
\* session is then torn down and CLOSED: no timer, no microphone producer, no
\* playback unit, no live media stream and no connecting or open channel.
C13_FinishHandsOverAndTearsDown ==
  "finish" \in lastOp =>
    /\ evaluating[1].history = currentTranscript
    /\ evaluating[1].duration = formatTime(secondsElapsed)
    /\ lifecycle = "CLOSED"
    /\ frameIntervals = {} /\ ~timerRunning
    /\ ActiveProducers = {}
    /\ sourcesRef = {}
    /\ streams = {}
    /\ \A a \in Attempts : chan[a] \notin {"connecting", "open"}

\* C14: when the remote side closes the channel of an open session, the session
\* is CLOSED after the same teardown as for a finish: the frame timer, the
\* microphone producer and the session timer are stopped, the media stream is
\* released and no playback unit is left scheduled.
C14_RemoteCloseTearsDown ==
  ("onclose" \in lastOp /\ mounted /\ isReady /\ error = "null") =>
    /\ lifecycle = "CLOSED"
    /\ ~timerRunning
    /\ frameIntervals = {}
    /\ ActiveProducers = {}
    /\ streams = {}
    /\ sourcesRef = {}

\* C15: a message whose tool invocations are all malformed (a field missing, or
\* no arguments) is still acknowledged, one acknowledgement per invocation, but
\* publishes no cue: the displayed cue, the timeout ref and the pending expiry
\* timers are unchanged.
C15_MalformedStep ==
  ("malformed" \in lastOp' /\ mounted) =>
    /\ AckCount' = AckCount + (nCalls' - nCalls)
    /\ visualFeedback' = visualFeedback
    /\ feedbackTimeoutRef' = feedbackTimeoutRef
    /\ cueTimers' = cueTimers
C15_MalformedAckedNotPublished == [][C15_MalformedStep]_vars

\* C16: every acknowledgement carries the identifier and the tool name of the
\* invocation it answers and the fixed result, and the acknowledgements of a
\* live session answer exactly the invocations received, also when one message
\* carries several invocations.
C16_AcksMatchInvocations ==
  mounted =>
    Acks = {[id |-> i, name |-> received[i], result |-> "ok"] : i \in 1..Len(received)}

\* C17: a chunk is scheduled at start = max(cursor, output clock), both as they
\* were when the chunk arrived, and the cursor is then start + its duration; for
\* chunks of 0.5 s arriving at 0, 0.3 and 1.6 the starts are 0, 0.5 and 1.6.
C17_EnqueueStep ==
  ("decodeDone" \in lastOp' /\ "interrupted" \notin lastOp' /\ mounted) =>
    LET e == schedule'[Len(schedule')] IN
      /\ e.start = Max(e.cur, e.at)
      /\ nextStartTimeRef' = e.start + e.dur
      /\ e.start = ExampleStarts[e.id]
C17_EnqueueAtMax == [][C17_EnqueueStep]_vars

\* C18: the mute button changes only the mute flag: the playback cursor, the
\* live set, both partial buffers, the turn history, the displayed cue and its
\* timer, the elapsed time, the frames in flight or sent, and whether the next
\* frame callback captures a frame are the same before and after it.
C18_ToggleStep ==
  "toggleMute" \in lastOp' =>
    /\ UNCHANGED <<nextStartTimeRef, sourcesRef, decoding, transcriptionRef,
                   currentTranscript, visualFeedback, feedbackTimeoutRef, cueTimers,
                   secondsElapsed, frameIntervals, encoding, nFrames, pending, outbound>>
    /\ timerRunning' = timerRunning
    /\ \A t \in Attempts : frameDue(t)' = frameDue(t)
C18_ToggleMuteFrame == [][C18_ToggleStep]_vars
C18_Witness ==
  /\ "toggleMute" \in lastOp /\ isMuted
  /\ sourcesRef # {} /\ nextStartTimeRef > 0
  /\ transcriptionRef.model # <<>> /\ currentTranscript # <<>>
  /\ visualFeedback # NoCue /\ cueTimers # {}
  /\ secondsElapsed > 0
  /\ \E t \in Attempts : frameDue(t)

\* C19: inbound events are processed strictly in arrival order: an event is
\* handled only when no earlier event still has an effect to apply (no chunk of
\* an earlier event is waiting to be scheduled), and the chunks are scheduled in
\* the order they arrived.
C19_ArrivalOrderStep ==
  mounted' =>
    /\ ("onmessage" \in lastOp' /\ "ignored" \notin lastOp') => decoding = {}
    /\ \A i, j \in 1..Len(schedule') : i < j => schedule'[i].id < schedule'[j].id
C19_ArrivalOrder == [][C19_ArrivalOrderStep]_vars

\* C20: a reset wipes the data of the previous session (no analysis, no
\* configuration and no transcript history remain in the app's state), and no
\* session or evaluation data is ever stored persistently.
C20_ResetWipesAll ==
  /\ storage = <<>>
  /\ "reset" \in lastOp => app.analysis = <<>> /\ app.config = 0 /\ app.history = <<>>

\* C21: at most one video frame is being compressed or sent at any time: a
\* frame-timer tick that fires while the previous frame is still in flight
\* captures nothing.
C21_OneFrameInFlight == Cardinality(encoding) <= 1

\* C22: within each outbound stream frames are sent in capture order: the
\* audio blocks and the video frames that reached a channel, and those queued
\* on its pending connection, are in the order in which they were captured.
Ascending(ids) == \A i, j \in 1..Len(ids) : i < j => ids[i] < ids[j]
C22_CaptureOrder ==
  /\ Ascending([i \in 1..Len(outbound.audio) |-> outbound.audio[i].id])
  /\ Ascending([i \in 1..Len(outbound.video) |-> outbound.video[i].id])
  /\ \A a \in Attempts : Ascending(pending[a].audio) /\ Ascending(pending[a].video)

\* C23: a published cue is cleared after the fixed display duration (5 s, 4 s
\* in the second variant) unless a newer cue replaces it first: the displayed
\* cue has its own expiry timer pending with that delay, at most one expiry
\* timer is pending, and a timer that clears the display is the timer of the
\* cue displayed, never the timer of a cue it superseded.
C23_DisplayDuration == IF variant = "A" THEN 5 * 1000 ELSE 4 * 1000
C23_CueStep ==
  /\ Cardinality(cueTimers') <= 1
  /\ \A t \in cueTimers' : t.delay = C23_DisplayDuration
  /\ (mounted' /\ visualFeedback' # NoCue) => \E t \in cueTimers' : t.id = visualFeedback'.id
  /\ ("cueExpired" \in lastOp' /\ visualFeedback # NoCue /\ visualFeedback' = NoCue)
       => \E t \in cueTimers \ cueTimers' : t.id = visualFeedback.id
C23_CueExpiry == [][C23_CueStep]_vars
C23_Witness ==
  /\ mounted /\ "onmessage" \in lastOp
  /\ nMsgs = 1 /\ nCalls = 2
  /\ visualFeedback.id = 2
  /\ cueTimers = {[id |-> 2, delay |-> C23_DisplayDuration]}

\* C24: an audio chunk that arrived before an interruption is never started
\* or added to the live set after that interruption has been processed.
C24_NoPlayAfterInterruptStep ==
  mounted' =>
    \A u \in sourcesRef' \ sourcesRef :
      ~(afterCancel = -1 \/ (afterCancel > 0 /\ u.id < afterCancel))
C24_NoPlayAfterInterrupt == [][C24_NoPlayAfterInterruptStep]_vars

\* C25: a start that was still awaiting device acquisition or the channel
\* connection when teardown ran leaves nothing behind once it has completed:
\* no session handle is installed, no channel is connecting or open, and no
\* frame timer or audio capture producer keeps running.
C25_LateStartLeavesNothing ==
  (~mounted /\ \A a \in Attempts : pc[a] \in {"none", "failed", "done"}) =>
    /\ sessionRef = 0
    /\ \A a \in Attempts : chan[a] \notin {"connecting", "open"}
    /\ frameIntervals = {}
    /\ ActiveProducers = {}

\* C26: no outbound frame (audio block, video frame or tool response) is sent
\* on a channel after teardown has called close() on it.
C26_NoSendAfterCloseStep ==
  \A kind \in {"audio", "video", "ack"} :
    \A i \in (Len(outbound[kind]) + 1)..Len(outbound'[kind]) :
      closes.session[outbound'[kind][i].ch] = 0
C26_NoSendAfterClose == [][C26_NoSendAfterCloseStep]_vars

\* C27: the turn history is append-only: across every step the history extends
\* the previous one, every turn has a speaker in {user, interviewer} and a
\* non-empty trimmed text, and a turn boundary that arrives while both partial
\* buffers are empty or whitespace only appends nothing.
C27_AppendOnlyStep ==
  /\ Len(currentTranscript') >= Len(currentTranscript)
  /\ SubSeq(currentTranscript', 1, Len(currentTranscript)) = currentTranscript
  /\ \A i \in 1..Len(currentTranscript') :
       /\ currentTranscript'[i].role \in {"user", "interviewer"}
       /\ currentTranscript'[i].text # <<>>
       /\ trim(currentTranscript'[i].text) = currentTranscript'[i].text
  /\ ("turnComplete" \in lastOp' /\ "delta" \notin lastOp'
        /\ trim(transcriptionRef.user) = <<>> /\ trim(transcriptionRef.model) = <<>>)
       => currentTranscript' = currentTranscript
C27_AppendOnly == [][C27_AppendOnlyStep]_vars
C27_Witness ==
  /\ mounted /\ "turnComplete" \in lastOp /\ "delta" \notin lastOp
  /\ Len(currentTranscript) >= 2

\* C28: a malformed audio chunk is dropped without affecting anything else:
\* no unit is scheduled for it, the session keeps its lifecycle state, the next
\* chunk starts where it would have started without it, and an interruption
\* flag of the same event is still processed (the live set is emptied and no
\* queued audio keeps the cursor ahead of the clock).
C28_BadChunkStep ==
  ("badAudio" \in lastOp' /\ mounted) =>
    /\ lifecycle' = lifecycle
    /\ decoding' = decoding
    /\ IF "interruption" \in lastOp'
         THEN sourcesRef' = {} /\ nextStartTimeRef' <= currentTime'
         ELSE /\ sourcesRef' = sourcesRef
              /\ Max(nextStartTimeRef', currentTime') = Max(nextStartTimeRef, currentTime)
C28_BadChunkDropped == [][C28_BadChunkStep]_vars

\* C29: both speakers' partial transcript buffers are empty immediately after
\* a turn-boundary event or an interruption event has been processed.
C29_BuffersResetStep ==
  ("turnComplete" \in lastOp' \/ "interrupted" \in lastOp') =>
    transcriptionRef' = [user |-> <<>>, model |-> <<>>]
C29_BuffersReset == [][C29_BuffersResetStep]_vars

\* C30: once the user has reset the application to IDLE, an evaluation request
\* that was still pending at the reset does not, when it resolves, change the
\* status, publish an analysis or update the usage statistics.
C30_StaleEvaluationStep ==
  ("evaluationResolved" \in lastOp' /\ app.status = "IDLE") =>
    /\ app'.status = "IDLE"
    /\ app'.analysis = app.analysis
    /\ app'.stats = app.stats
    /\ storage' = storage
C30_StaleEvaluationIgnored == [][C30_StaleEvaluationStep]_vars

\* C31: the elapsed-time counter advances by exactly one per timer tick and
\* only while the session is OPEN: after a channel error, a remote close or
\* teardown no elapsed-time timer is left running and the counter no longer
\* changes, and at most one elapsed-time timer is active at any time.
C31_TimerStep ==
  /\ secondsElapsed' # secondsElapsed =>
       /\ "timerTick" \in lastOp'
       /\ secondsElapsed' = secondsElapsed + 1
       /\ lifecycle = "OPEN"
  /\ Cardinality(timerIntervals') <= 1
  /\ timerIntervals' # {} => lifecycle' = "OPEN"
  /\ ("onerror" \in lastOp' \/ "onclose" \in lastOp' \/ "cleanup" \in lastOp')
       => timerIntervals' = {}
C32_StatusStep ==
  /\ app'.status = "INTERVIEWING" => app'.config # 0
  /\ app'.status = "COMPLETED" => app'.analysis # <<>>
  /\ (app'.status = "COMPLETED" /\ app.status # "COMPLETED")
       => "evaluationResolved" \in lastOp'
C32_StatusImpliesData == [][C32_StatusStep]_vars
C32_Witness ==
  /\ "handleStartInterview" \in lastOp
  /\ app.status = "INTERVIEWING" /\ app.config # 0
  /\ app.history # <<>>

\* C33: when the evaluation request fails the application state is unchanged
\* apart from the loading flag (status, analysis, history, statistics and
\* their persisted copy are not modified), and the loading flag is false after
\* both the failure and the success path.
C33_FailureStep ==
  /\ "evaluationRejected" \in lastOp' =>
       /\ app'.status = app.status /\ app'.config = app.config
       /\ app'.analysis = app.analysis
       /\ app'.history = app.history
       /\ app'.stats = app.stats
       /\ storage' = storage
       /\ ~app'.loading
  /\ "evaluationResolved" \in lastOp' => ~app'.loading
C33_FailureLeavesState == [][C33_FailureStep]_vars
C33_Witness ==
  /\ "evaluationRejected" \in lastOp
  /\ app.status = "INTERVIEWING" /\ app.analysis = <<>>
  /\ ~app.loading /\ evaluating = <<>>

\* C34: the duration handed over by finish is the elapsed seconds s rendered
\* as MM:SS (floor(s/60) and s mod 60, each zero-padded to two digits, joined
\* by a colon); for every 0 <= s < 6000 it is exactly five characters and maps
\* back to s.
DigitValue(c) == CHOOSE v \in 0..9 : Digits[v + 1] = c
C34_DurationStep ==
  ("finish" \in lastOp' /\ secondsElapsed < 100 * 60) =>
    LET d == evaluating'[1].duration IN
    /\ Len(d) = 5
    /\ d[3] = ":"
    /\ \A i \in {1, 2, 4, 5} : \E v \in 0..9 : Digits[v + 1] = d[i]
    /\ 10 * DigitValue(d[1]) + DigitValue(d[2]) = secondsElapsed \div 60
    /\ 10 * DigitValue(d[4]) + DigitValue(d[5]) = secondsElapsed % 60
    /\ 60 * (10 * DigitValue(d[1]) + DigitValue(d[2]))
         + 10 * DigitValue(d[4]) + DigitValue(d[5]) = secondsElapsed
C34_DurationIsMMSS == [][C34_DurationStep]_vars
C34_Witness ==
  /\ "finish" \in lastOp
  /\ evaluating # <<>>
  /\ evaluating[1].duration = <<"9", "9", ":", "5", "9">>

\* C35: updateStats maintains the day streak by calendar day: the first
\* recorded session sets it to 1, a further session on the same calendar day
\* leaves it unchanged, a session on the next day increases it by one, and a
\* session after a gap of more than one day resets it to 1.
C35_StreakStep ==
  ("evaluationResolved" \in lastOp' /\ variant = "A") =>
    LET last == app.stats.lastSessionDate
        today == DayOf(wallClock)
        old == app.stats.currentStreak
        new == app'.stats.currentStreak IN
    /\ last = -1 => new = 1
    /\ (last # -1 /\ today = last) => new = old
    /\ (last # -1 /\ today = last + 1) => new = old + 1
    /\ (last # -1 /\ today > last + 1) => new = 1
C35_StreakByCalendarDay == [][C35_StreakStep]_vars

====
